---- MODULE Spec2Model ----
(***************************************************************************)
(* Model of EmojicodeCompiler::CLI::Options (Compiler/CLI/Options.cpp):    *)
(* construction of the option object from a command line and the process   *)
(* environment, the derivation of the output paths, and the accessors      *)
(* linker(), ar(), objectPath(), llvmIrPath() and compilerDelegate().       *)
(*                                                                         *)
(* A std::string is a sequence of one-character strings, so that the path  *)
(* functions (parent_path, filename, stem) and every concatenation are     *)
(* computed character by character.  An optional command line value, and   *)
(* the result of getenv, is a set with at most one element: {} is "flag    *)
(* not given" / a null pointer.                                            *)
(***************************************************************************)
EXTENDS Naturals, Sequences, FiniteSets

VARIABLES
    cli,                 \* the command line handed to the constructor (argv)
    env,                 \* the process environment: name -> {} or {value}
    cwd,                 \* the current directory of the process
    pc,                  \* position of the constructor / lifetime of the object
    targetTriple_, report_, mainFile_, jsonOutput_, format_, forceColor_,
    optimize_, printIr_, mainPackageName_, pack_, outPath_, interfaceFile_,
    reportPath_, linker_, packageSearchPaths_,
    stdout, stderr,      \* what has been printed, in order
    configureCalls,      \* number of times configureOutPath() has run
    envAtStart,          \* the environment the process was started with
    lastCall             \* the latest linker()/ar() call and what it returned

vars == <<cli, env, cwd, pc, targetTriple_, report_, mainFile_, jsonOutput_, format_,
          forceColor_, optimize_, printIr_, mainPackageName_, pack_, outPath_,
          interfaceFile_, reportPath_, linker_, packageSearchPaths_, stdout,
          stderr, configureCalls, envAtStart, lastCall>>

fields == <<targetTriple_, report_, mainFile_, jsonOutput_, format_, forceColor_,
            optimize_, printIr_, mainPackageName_, pack_, outPath_,
            interfaceFile_, reportPath_, linker_, packageSearchPaths_>>

-----------------------------------------------------------------------------
(* Bounds of the model *)

\* longest main file path enumerated exhaustively
MaxPathLen == 3

\* largest number of -S options on a command line
MaxSearchPaths == 2

-----------------------------------------------------------------------------
(* Strings *)

EmptyString == << >>

Last(s) == s[Len(s)]

\* the strings over the alphabet S of length at most n
Strings(S, n) == UNION {[1..k -> S] : k \in 0..n}

defaultPackagesDirectory ==
    <<"/","u","s","r","/","l","o","c","a","l","/",
      "E","m","o","j","i","c","o","d","e","P","a","c","k","a","g","e","s">>

PackagesName == <<"p","a","c","k","a","g","e","s">>

InterfaceName == <<"i","n","t","e","r","f","a","c","e",".","e","m","o","j","i","i">>

DocumentationName ==
    <<"d","o","c","u","m","e","n","t","a","t","i","o","n",".","j","s","o","n">>

DefaultLinker == <<"c","+","+">>

DefaultAr == <<"a","r">>

-----------------------------------------------------------------------------
(* llvm::sys::path, POSIX style, as the calls in Options.cpp use it.  Paths *)
(* that begin with two separators (network root names) are not among the    *)
(* modelled inputs.                                                         *)

is_separator(c) == c = "/"

\* 1-based index of the last occurrence of c in str, 0 when there is none
find_last_of(str, c) ==
    LET hits == {i \in 1..Len(str) : str[i] = c}
    IN  IF hits = {} THEN 0 ELSE CHOOSE i \in hits : \A j \in hits : j <= i

\* does the path start with a root directory
has_root_directory(str) == Len(str) > 0 /\ is_separator(str[1])

\* number of characters that precede the last component of str
filename_pos(str) ==
    IF Len(str) = 2 /\ is_separator(str[1]) /\ str[1] = str[2] THEN 0
    ELSE IF Len(str) > 0 /\ is_separator(Last(str)) THEN Len(str) - 1
    ELSE LET pos == find_last_of(str, "/")
         IN  IF pos = 0 \/ (pos = 2 /\ is_separator(str[1])) THEN 0 ELSE pos

\* skip the separators that end path[1..e], never the root directory
RECURSIVE skip_separators(_, _, _)
skip_separators(path, rooted, e) ==
    IF e > 0 /\ ~(rooted /\ e = 1) /\ is_separator(path[e])
    THEN skip_separators(path, rooted, e - 1)
    ELSE e

parent_path(path) ==
    LET end_pos == filename_pos(path)
        filename_was_sep == Len(path) > 0 /\ is_separator(path[end_pos + 1])
        rooted == has_root_directory(SubSeq(path, 1, end_pos))
        end == skip_separators(path, rooted, end_pos)
    IN  IF end = 1 /\ rooted /\ filename_was_sep
        THEN EmptyString
        ELSE SubSeq(path, 1, end)

\* the last component of the path; a trailing separator reads as "."
filename(path) ==
    LET rooted == has_root_directory(path)
    IN  IF Len(path) > (IF rooted THEN 1 ELSE 0) /\ is_separator(Last(path))
        THEN <<".">>
        ELSE LET end == skip_separators(path, rooted, Len(path))
                 start == filename_pos(SubSeq(path, 1, end))
             IN  SubSeq(path, start + 1, end)

stem(path) ==
    LET fname == filename(path)
        pos == find_last_of(fname, ".")
    IN  IF pos = 0 THEN fname
        ELSE IF fname = <<".">> \/ fname = <<".", ".">> THEN fname
        ELSE SubSeq(fname, 1, pos - 1)

has_stem(path) == stem(path) # EmptyString

\* llvm::sys::fs::make_absolute: a relative path is appended to the current
\* directory, with one separator between them unless the directory ends in one
make_absolute(current, path) ==
    IF has_root_directory(path) THEN path
    ELSE IF current # EmptyString /\ ~is_separator(Last(current))
         THEN current \o <<"/">> \o path
         ELSE current \o path

-----------------------------------------------------------------------------
(* Command lines and environments *)

\* args::ValueFlag: matched (given on the command line) and its value
Matched(flag) == flag # {}

Get(flag) == IF flag = {} THEN EmptyString ELSE CHOOSE v \in flag : TRUE

\* getenv: {} is the null pointer
getenv(name) == env[name]

PathChars == {"a", ".", "/"}

IsNetworkRoot(p) == Len(p) >= 2 /\ p[1] = "/" /\ p[2] = "/"

MainFiles ==
    {p \in Strings(PathChars, MaxPathLen) : ~IsNetworkRoot(p)}
        \cup {<<"d","/","f",".","e">>, <<"d","/","f",".","e",".","g">>}

SomeFile == <<"d","/","f",".","e">>

SearchPathLists == Strings({<<"s">>, <<"/","t">>}, MaxSearchPaths)

NoFlags ==
    [help |-> FALSE, malformed |-> FALSE, file |-> {SomeFile},
     package |-> {}, out |-> {}, interfaceOut |-> {}, target |-> {},
     linker |-> {}, report |-> FALSE, object |-> FALSE, json |-> FALSE,
     format |-> FALSE, color |-> FALSE, optimize |-> FALSE, printIr |-> FALSE,
     searchPaths |-> << >>]

\* command lines that vary the main file and everything the paths depend on
PathCommandLines ==
    {[NoFlags EXCEPT !.file = {f}, !.package = p, !.out = o,
                     !.interfaceOut = i, !.object = c, !.printIr = l,
                     !.report = r] :
        f \in MainFiles,
        p \in {{}, {<<"x">>}},
        o \in {{}, {EmptyString}, {<<"o">>}},
        i \in {{}, {EmptyString}, {<<"i">>}},
        c \in BOOLEAN, l \in BOOLEAN, r \in BOOLEAN}

\* command lines that vary the flags
FlagCommandLines ==
    {[NoFlags EXCEPT !.package = p, !.out = o, !.linker = k, !.target = t,
                     !.report = r, !.object = c, !.printIr = l, !.json = j,
                     !.format = f, !.color = j, !.optimize = f] :
        p \in {{}, {<<"x">>}},
        o \in {{}, {<<"o">>}},
        k \in {{}, {<<"c","u","s","t","o","m">>}},
        t \in {{}, {<<"t">>}},
        r \in BOOLEAN, c \in BOOLEAN, l \in BOOLEAN, j \in BOOLEAN, f \in BOOLEAN}

\* command lines that vary the -S options
SearchCommandLines ==
    {[NoFlags EXCEPT !.searchPaths = s] : s \in SearchPathLists}

\* command lines the parser rejects, or that ask for the help text
CancelCommandLines ==
    {c \in {[NoFlags EXCEPT !.help = h, !.malformed = m, !.file = f, !.report = r] :
                h \in BOOLEAN, m \in BOOLEAN, f \in {{}, {SomeFile}}, r \in BOOLEAN} :
        c.help \/ c.malformed \/ c.file = {}}

Environments ==
    [EMOJICODE_PACKAGES_PATH : {{}, {EmptyString}, {<<"/","e">>}},
     CXX : {{}, {<<"g">>}, {<<"k">>}},
     AR : {{}, {<<"r">>}}]

NoCall == [op |-> "none", result |-> EmptyString]

-----------------------------------------------------------------------------
(* The state before the constructor body runs: the member initialisers *)

InitFields ==
    /\ targetTriple_ = EmptyString
    /\ report_ = FALSE
    /\ mainFile_ = EmptyString
    /\ jsonOutput_ = FALSE
    /\ format_ = FALSE
    /\ forceColor_ = FALSE
    /\ optimize_ = FALSE
    /\ printIr_ = FALSE
    /\ mainPackageName_ = EmptyString
    /\ pack_ = TRUE
    /\ outPath_ = EmptyString
    /\ interfaceFile_ = EmptyString
    /\ reportPath_ = EmptyString
    /\ linker_ = EmptyString
    /\ packageSearchPaths_ = << >>

InitWith(commandLines, environments, directories) ==
    /\ cli \in commandLines
    /\ env \in environments
    /\ cwd \in directories
    /\ envAtStart = env
    /\ pc = "start"
    /\ InitFields
    /\ stdout = << >>
    /\ stderr = << >>
    /\ configureCalls = 0
    /\ lastCall = NoCall

Init ==
    \/ InitWith(FlagCommandLines \cup CancelCommandLines, Environments, {<<"/","w">>})
    \/ InitWith(SearchCommandLines, Environments, {<<"/">>, <<"/","w">>})

-----------------------------------------------------------------------------
(* Accessors of Options *)

pack == pack_

standalone == mainPackageName_ = EmptyString

shouldReport == report_

-----------------------------------------------------------------------------
(* Options::Options *)

\* parser.ParseCLI(argc, argv): returns, or throws args::Help, args::ParseError
\* or args::ValidationError.  The help flag and a malformed argument are acted
\* on where they stand on the command line, so with both either may come first;
\* the required positional is validated once all arguments are read.
ParseCLI ==
    /\ pc = "start"
    /\ pc' \in IF cli.help \/ cli.malformed
               THEN {o \in {"Help", "ParseError"} :
                        (o = "Help" /\ cli.help) \/ (o = "ParseError" /\ cli.malformed)}
               ELSE IF cli.file = {} THEN {"ValidationError"} ELSE {"parsed"}
    /\ UNCHANGED <<cli, env, cwd, fields, stdout, stderr, configureCalls,
                   envAtStart, lastCall>>

\* a readEnvironment that puts the -S paths after the local packages directory
readEnvironmentAfterPackages(searchPaths) ==
    LET packages == make_absolute(cwd, PackagesName)
        withPackages == Append(packageSearchPaths_, packages)
        withSearchPaths == withPackages \o searchPaths
        withEnvironment ==
            IF getenv("EMOJICODE_PACKAGES_PATH") # {}
            THEN Append(withSearchPaths, Get(getenv("EMOJICODE_PACKAGES_PATH")))
            ELSE withSearchPaths
    IN  Append(withEnvironment, defaultPackagesDirectory)

\* Options::readEnvironment: the value of packageSearchPaths_ it leaves
readEnvironment(searchPaths) ==
    LET packages == make_absolute(cwd, PackagesName)
        withPackages == Append(packageSearchPaths_, packages)
        withSearchPaths == searchPaths \o withPackages
        withEnvironment ==
            IF getenv("EMOJICODE_PACKAGES_PATH") # {}
            THEN Append(withSearchPaths, Get(getenv("EMOJICODE_PACKAGES_PATH")))
            ELSE withSearchPaths
    IN  Append(withEnvironment, defaultPackagesDirectory)

\* a constructor that disables packaging for -c only
packAfterObjectFlag == IF cli.object THEN FALSE ELSE pack_

\* if (object || printIr_) pack_ = false;
packAfterFlags == IF cli.object \/ cli.printIr THEN FALSE ELSE pack_

\* the rest of the try block, after ParseCLI returned
OptionsBody ==
    /\ pc = "parsed"
    /\ packageSearchPaths_' = readEnvironment(cli.searchPaths)
    /\ targetTriple_' = Get(cli.target)
    /\ report_' = cli.report
    /\ mainFile_' = Get(cli.file)
    /\ jsonOutput_' = cli.json
    /\ format_' = cli.format
    /\ forceColor_' = cli.color
    /\ optimize_' = cli.optimize
    /\ printIr_' = cli.printIr
    /\ mainPackageName_' = IF Matched(cli.package) THEN Get(cli.package)
                                                   ELSE mainPackageName_
    /\ pack_' = packAfterFlags
    /\ outPath_' = IF Matched(cli.out) THEN Get(cli.out) ELSE outPath_
    /\ interfaceFile_' = IF Matched(cli.interfaceOut) THEN Get(cli.interfaceOut)
                                                      ELSE interfaceFile_
    /\ pc' = "assigned"
    /\ UNCHANGED <<cli, env, cwd, reportPath_, linker_, stdout, stderr,
                   configureCalls, envAtStart, lastCall>>

\* catch (args::Help &): std::cout << parser; throw CompilationCancellation()
CatchHelp ==
    /\ pc = "Help"
    /\ stdout' = Append(stdout, "usage")
    /\ pc' = "cancelled"
    /\ UNCHANGED <<cli, env, cwd, fields, stderr, configureCalls, envAtStart, lastCall>>

\* catch (args::ParseError &): message to stdout, usage to stderr, throw
CatchParseError ==
    /\ pc = "ParseError"
    /\ stdout' = Append(stdout, "message")
    /\ stderr' = Append(stderr, "usage")
    /\ pc' = "cancelled"
    /\ UNCHANGED <<cli, env, cwd, fields, configureCalls, envAtStart, lastCall>>

\* a handler that prints the message and forgets to throw
CatchValidationErrorNoThrow ==
    /\ pc = "ValidationError"
    /\ stdout' = Append(stdout, "message")
    /\ pc' = "assigned"
    /\ UNCHANGED <<cli, env, cwd, fields, stderr, configureCalls, envAtStart, lastCall>>

\* catch (args::ValidationError &): message to stdout, throw
CatchValidationError ==
    /\ pc = "ValidationError"
    /\ stdout' = Append(stdout, "message")
    /\ pc' = "cancelled"
    /\ UNCHANGED <<cli, env, cwd, fields, stderr, configureCalls, envAtStart, lastCall>>

-----------------------------------------------------------------------------
(* Options::configureOutPath *)

\* a first rule that keeps the extension of the main file
outPathRuleKeepsExtension ==
    LET parentPath == parent_path(mainFile_)
    IN  IF pack /\ outPath_ = EmptyString
        THEN IF standalone
             THEN IF has_stem(mainFile_)
                  THEN LET appended == IF parentPath # EmptyString
                                       THEN parentPath \o <<"/">>
                                       ELSE parentPath
                       IN  [outPath |-> appended \o filename(mainFile_),
                            parentPath |-> appended]
                  ELSE [outPath |-> mainFile_, parentPath |-> parentPath]
             ELSE [outPath |->
                       (IF parentPath # EmptyString
                        THEN parentPath \o <<"/">> ELSE outPath_)
                           \o <<"l","i","b">> \o mainPackageName_ \o <<".","a">>,
                   parentPath |-> parentPath]
        ELSE [outPath |-> outPath_, parentPath |-> parentPath]

\* first rule: outPath_, and the local parentPath as the rule leaves it
outPathRule ==
    LET parentPath == parent_path(mainFile_)
    IN  IF pack /\ outPath_ = EmptyString
        THEN IF standalone
             THEN IF has_stem(mainFile_)
                  THEN LET appended == IF parentPath # EmptyString
                                       THEN parentPath \o <<"/">>
                                       ELSE parentPath
                       IN  [outPath |-> appended \o stem(mainFile_),
                            parentPath |-> appended]
                  ELSE [outPath |-> mainFile_, parentPath |-> parentPath]
             ELSE [outPath |->
                       (IF parentPath # EmptyString
                        THEN parentPath \o <<"/">> ELSE outPath_)
                           \o <<"l","i","b">> \o mainPackageName_ \o <<".","a">>,
                   parentPath |-> parentPath]
        ELSE [outPath |-> outPath_, parentPath |-> parentPath]

\* second rule: interfaceFile_
interfaceRule(parentPath) ==
    IF ~standalone /\ interfaceFile_ = EmptyString
    THEN (IF parentPath # EmptyString
          THEN parentPath \o <<"/">> ELSE interfaceFile_) \o InterfaceName
    ELSE interfaceFile_

\* third rule: reportPath_
reportRule(parentPath) ==
    IF shouldReport
    THEN (IF parentPath # EmptyString
          THEN parentPath \o <<"/">> ELSE reportPath_) \o DocumentationName
    ELSE reportPath_

\* the call that ends the constructor; the object exists once it returns
configureOutPath ==
    /\ pc = "assigned"
    /\ LET first == outPathRule
       IN  /\ outPath_' = first.outPath
           /\ interfaceFile_' = interfaceRule(first.parentPath)
           /\ reportPath_' = reportRule(first.parentPath)
    /\ configureCalls' = configureCalls + 1
    /\ pc' = "constructed"
    /\ UNCHANGED <<cli, env, cwd, targetTriple_, report_, mainFile_, jsonOutput_,
                   format_, forceColor_, optimize_, printIr_, mainPackageName_,
                   pack_, linker_, packageSearchPaths_, stdout, stderr,
                   envAtStart, lastCall>>

-----------------------------------------------------------------------------
(* The accessors computed on demand *)

compilerDelegate ==
    IF jsonOutput_ THEN [delegate |-> "JSONCompilerDelegate", forceColor |-> FALSE]
    ELSE [delegate |-> "HRFCompilerDelegate", forceColor |-> forceColor_]

\* Options::linker, given what getenv answers
linkerIn(environment) ==
    IF environment["CXX"] # {} THEN Get(environment["CXX"])
    ELSE IF linker_ # EmptyString THEN linker_
    ELSE DefaultLinker

\* a linker() that answers from the environment of the construction
linkerAtConstruction == linkerIn(envAtStart)

\* what linker() returns when called in the current state
linker == linkerIn(env)

\* Options::ar, given what getenv answers
arIn(environment) ==
    IF environment["AR"] # {} THEN Get(environment["AR"]) ELSE DefaultAr

\* what ar() returns when called in the current state
ar == arIn(env)

\* an objectPath() that forgets to ask whether packaging is disabled
objectPathIgnoringPack ==
    IF outPath_ # EmptyString THEN outPath_
    ELSE LET parentPath == parent_path(mainFile_)
             appended == IF parentPath # EmptyString
                         THEN parentPath \o <<"/">> ELSE parentPath
         IN  appended \o stem(mainFile_) \o <<".","o">>

objectPath ==
    IF ~pack /\ outPath_ # EmptyString THEN outPath_
    ELSE LET parentPath == parent_path(mainFile_)
             appended == IF parentPath # EmptyString
                         THEN parentPath \o <<"/">> ELSE parentPath
         IN  appended \o stem(mainFile_) \o <<".","o">>

llvmIrPath ==
    IF ~printIr_ THEN EmptyString
    ELSE LET parentPath == parent_path(mainFile_)
             appended == IF parentPath # EmptyString
                         THEN parentPath \o <<"/">> ELSE parentPath
         IN  appended \o stem(mainFile_) \o <<".","l","l">>

\* a later stage asks the constructed object for the linker
CallLinker ==
    /\ pc = "constructed"
    /\ lastCall' = [op |-> "linker", result |-> linker]
    /\ UNCHANGED <<cli, env, cwd, pc, fields, stdout, stderr, configureCalls, envAtStart>>

\* a later stage asks the constructed object for the archiver
CallAr ==
    /\ pc = "constructed"
    /\ lastCall' = [op |-> "ar", result |-> ar]
    /\ UNCHANGED <<cli, env, cwd, pc, fields, stdout, stderr, configureCalls, envAtStart>>

\* the environment changes after construction: setenv / unsetenv of CXX or AR
ChangeEnvironment ==
    /\ pc = "constructed"
    /\ \E e \in Environments :
          /\ e.EMOJICODE_PACKAGES_PATH = env.EMOJICODE_PACKAGES_PATH
          /\ (e.CXX = env.CXX) # (e.AR = env.AR)
          /\ env' = e
    /\ UNCHANGED <<cli, cwd, pc, fields, stdout, stderr, configureCalls,
                   envAtStart, lastCall>>

Next ==
    \/ ParseCLI
    \/ OptionsBody
    \/ CatchHelp
    \/ CatchParseError
    \/ CatchValidationError
    \/ configureOutPath
    \/ CallLinker
    \/ CallAr
    \/ ChangeEnvironment

Spec == Init /\ [][Next]_vars

\* the same program, started on the command lines that vary the main file
InitPaths ==
    InitWith(PathCommandLines \cup CancelCommandLines,
             {e \in Environments : e.CXX = {} /\ e.AR = {}
                                    /\ e.EMOJICODE_PACKAGES_PATH = {}},
             {<<"/","w">>})

SpecPaths == InitPaths /\ [][Next]_vars

-----------------------------------------------------------------------------
(* Notation of the properties *)

constructed == pc = "constructed"

\* dir/name, with no separator when dir is empty
Under(dir, name) == IF dir = EmptyString THEN name ELSE dir \o <<"/">> \o name

\* parent directory and stem of the main file named on the command line
Dir == parent_path(Get(cli.file))

Stem == stem(Get(cli.file))

LocalPackages == make_absolute(cwd, PackagesName)

PackagesPathAtStart == envAtStart["EMOJICODE_PACKAGES_PATH"]

-----------------------------------------------------------------------------
(* Properties *)

LinkerPriority ==
    constructed =>
        linker = IF env["CXX"] # {} THEN Get(env["CXX"])
                 ELSE IF Matched(cli.linker) THEN Get(cli.linker)
                 ELSE DefaultLinker

\* C3 as claimed: objectPath() is the -o value only when -c and -o were given
\* (stated here for a -o value that is not empty), and dir/stem + ".o" in
\* every other case, --emit-llvm without -c together with -o included.
ObjectPathOnlyForObjectFlag ==
    constructed =>
        IF cli.object /\ Matched(cli.out)
        THEN Get(cli.out) # EmptyString => objectPath = Get(cli.out)
        ELSE objectPath = Under(Dir, Stem) \o <<".","o">>

\* C3 as amended: objectPath() is the -o value exactly when packaging is
\* disabled (-c or --emit-llvm) and the -o value is not empty, and
\* dir/stem + ".o" in every other case.
ObjectPathWhenNotPacking ==
    constructed =>
        objectPath = IF (cli.object \/ cli.printIr) /\ Get(cli.out) # EmptyString
                     THEN Get(cli.out)
                     ELSE Under(Dir, Stem) \o <<".","o">>

ObjectPathWhenNotPackingWitness ==
    /\ constructed
    /\ cli.printIr /\ ~cli.object
    /\ cli.out = {<<"o">>}
    /\ cli.file = {<<"d","/","f",".","e">>}
    /\ objectPath = <<"o">>

\* C4 as claimed: with packaging enabled and no -o, outPath is dir/stem in
\* standalone mode and dir/"lib" + mainPackageName + ".a" in library mode; a -o
\* value is kept verbatim; with packaging disabled and no -o outPath is empty.
OutPathAsGivenOrDerived ==
    constructed =>
        /\ (pack_ /\ ~Matched(cli.out)) =>
              outPath_ = IF ~Matched(cli.package)
                         THEN Under(Dir, Stem)
                         ELSE Under(Dir, <<"l","i","b">> \o Get(cli.package)
                                             \o <<".","a">>)
        /\ Matched(cli.out) => outPath_ = Get(cli.out)
        /\ (~pack_ /\ ~Matched(cli.out)) => outPath_ = EmptyString

\* C4 as amended: with packaging enabled and no -o value other than the empty
\* string, outPath is, in standalone mode, dir/stem when the stem of the main
\* file is not empty and the main file itself when it is, and in library mode
\* dir/"lib" + mainPackageName + ".a"; a -o value that is not empty is kept
\* verbatim; with packaging disabled outPath is the -o value, empty without -o.
OutPathDerivedWhenEmpty ==
    constructed =>
        /\ (pack_ /\ Get(cli.out) = EmptyString) =>
              outPath_ = IF ~Matched(cli.package)
                         THEN (IF Stem # EmptyString THEN Under(Dir, Stem)
                                                     ELSE Get(cli.file))
                         ELSE Under(Dir, <<"l","i","b">> \o Get(cli.package)
                                             \o <<".","a">>)
        /\ Get(cli.out) # EmptyString => outPath_ = Get(cli.out)
        /\ ~pack_ => outPath_ = Get(cli.out)

OutPathDerivedWhenEmptyWitness ==
    /\ constructed
    /\ pack_
    /\ ~Matched(cli.out) /\ ~Matched(cli.package)
    /\ cli.file = {<<"d","/","f",".","e">>}
    /\ outPath_ = <<"d","/","f">>

\* C5: in a constructed Options pack is false exactly when -c or --emit-llvm
\* was given; no other flag changes it.
PackIffNeitherObjectNorIr ==
    constructed => (pack_ = FALSE <=> (cli.object \/ cli.printIr))

PackIffNeitherObjectNorIrWitness ==
    /\ constructed
    /\ cli.printIr /\ ~cli.object
    /\ cli.format /\ cli.report /\ Matched(cli.out) /\ Matched(cli.package)
    /\ pack_ = FALSE

\* C6: a help request, a parse error and a validation error end construction
\* in the cancellation, after the text has been printed, without
\* configureOutPath having run and with no object to call; a construction that
\* completes has run configureOutPath exactly once, after the flags and the
\* main file were assigned, and has printed nothing.
CompleteOrCancelled ==
    /\ configureCalls <= 1
    /\ pc \in {"Help", "ParseError", "ValidationError", "cancelled"} =>
          configureCalls = 0
    /\ pc = "cancelled" =>
          /\ cli.help \/ cli.malformed \/ cli.file = {}
          /\ stdout \in {<<"usage">>, <<"message">>}
          /\ stderr = (IF stdout = <<"message">> /\ cli.malformed
                       THEN <<"usage">> ELSE << >>)
          /\ lastCall = NoCall
          /\ outPath_ = EmptyString /\ reportPath_ = EmptyString
    /\ (constructed \/ configureCalls = 1) =>
          /\ constructed /\ configureCalls = 1
          /\ ~cli.help /\ ~cli.malformed /\ cli.file # {}
          /\ stdout = << >> /\ stderr = << >>
          /\ mainFile_ = Get(cli.file)
          /\ report_ = cli.report /\ printIr_ = cli.printIr
          /\ jsonOutput_ = cli.json /\ format_ = cli.format
          /\ forceColor_ = cli.color /\ optimize_ = cli.optimize
          /\ targetTriple_ = Get(cli.target)
          /\ mainPackageName_ = Get(cli.package)

CompleteOrCancelledWitness ==
    /\ pc = "cancelled"
    /\ cli.file = {} /\ ~cli.help /\ ~cli.malformed
    /\ stdout = <<"message">>
    /\ configureCalls = 0

\* C7: EMOJICODE_PACKAGES_PATH contributes an entry only if it is set and not
\* empty: set to the empty string, nothing is appended between the absolute
\* "packages" directory and the default directory.
EmptyPackagesPathSkipped ==
    constructed =>
        packageSearchPaths_ =
            cli.searchPaths \o <<LocalPackages>>
                \o (IF PackagesPathAtStart # {}
                       /\ Get(PackagesPathAtStart) # EmptyString
                    THEN <<Get(PackagesPathAtStart)>> ELSE << >>)
                \o <<defaultPackagesDirectory>>

\* C8 as claimed: whatever happens to CXX and AR after construction, linker()
\* and ar() return what a call made right after construction returned.
ToolsFixedAtConstruction ==
    /\ lastCall.op = "linker" => lastCall.result = linkerIn(envAtStart)
    /\ lastCall.op = "ar" => lastCall.result = arIn(envAtStart)

\* C8 as amended: linker() and ar() read the environment at each call: a call
\* returns the value CXX (AR) has at the time of the call if the variable is
\* set then, and otherwise a value that does not depend on the environment
\* (the --linker value or "c++" for linker(), "ar" for ar()).
ToolsFollowEnvironment ==
    [][lastCall' # lastCall =>
         /\ lastCall'.op = "linker" =>
               IF env["CXX"] # {}
               THEN lastCall'.result = Get(env["CXX"])
               ELSE lastCall'.result \in {Get(cli.linker), DefaultLinker}
         /\ lastCall'.op = "ar" =>
               lastCall'.result = IF env["AR"] # {} THEN Get(env["AR"])
                                                     ELSE DefaultAr]_vars

ToolsFollowEnvironmentWitness ==
    /\ constructed
    /\ envAtStart["CXX"] = {<<"g">>}
    /\ env["CXX"] = {<<"k">>}
    /\ lastCall = [op |-> "linker", result |-> <<"k">>]

\* C9 as claimed, for -i values that are not empty: with a package name and no
\* -i, interfaceFile is dir/"interface.emojii"; a -i value is kept; standalone
\* without -i leaves it empty; reportPath is dir/"documentation.json" exactly
\* when -r was given and empty otherwise, whatever pack and outPath are.
InterfaceAndReportPaths ==
    constructed =>
        /\ (Matched(cli.package) /\ ~Matched(cli.interfaceOut)) =>
              interfaceFile_ = Under(Dir, InterfaceName)
        /\ Get(cli.interfaceOut) # EmptyString =>
              interfaceFile_ = Get(cli.interfaceOut)
        /\ (~Matched(cli.package) /\ ~Matched(cli.interfaceOut)) =>
              interfaceFile_ = EmptyString
        /\ reportPath_ = IF cli.report THEN Under(Dir, DocumentationName)
                                       ELSE EmptyString

\* C10: in a constructed Options every path the selected mode needs is there:
\* outPath is not empty when pack is true, interfaceFile is not empty when a
\* package name was given, reportPath is not empty when -r was given.
NeededPathsPresent ==
    constructed =>
        /\ pack_ => outPath_ # EmptyString
        /\ Matched(cli.package) => interfaceFile_ # EmptyString
        /\ cli.report => reportPath_ # EmptyString

====
